---- MODULE Spec2Model ----
(***************************************************************************)
(* Model of src/Mandelbrot.py: MandelbrotZoomSequence.                     *)
(*                                                                         *)
(* generate_mandelbrot_image is modelled step by step (grid construction,  *)
(* one action per iteration of the escape loop, normalisation and colour   *)
(* mapping) and, from the same operators, as one function that the camera  *)
(* driven updater update_mandelbrot calls on every display tick.           *)
(*                                                                         *)
(* Numbers.  The code computes in IEEE doubles.  The model keeps the       *)
(* doubles that are integers (on which +, -, * are exact, and / is exact   *)
(* when the divisor divides) and NaN, which propagates through every       *)
(* operation and compares false.  Inputs are drawn so that every sample    *)
(* of the grid is an integer point or NaN.                                 *)
(***************************************************************************)
EXTENDS Integers, Sequences, FiniteSets, TLC

VARIABLES args, pc, c, z, div_time, mask, i, max_val, normalized, image,
          frame, mandelbrot_mob, fresh

evalVars == <<args, pc, c, z, div_time, mask, i, max_val, normalized, image>>
sceneVars == <<frame, mandelbrot_mob, fresh>>
vars == <<args, pc, c, z, div_time, mask, i, max_val, normalized, image,
          frame, mandelbrot_mob, fresh>>

(***************************************************************************)
(* Bounds of the model.                                                    *)
(***************************************************************************)
\* view bounds of a direct call: x in -MaxCoord..MaxCoord, y in 0..MaxCoord, or NaN
MaxCoord == 3
\* pixel dimensions of a direct call are drawn from -1..MaxDim
MaxDim == 2
\* iteration caps of a direct call are drawn from 0..MaxIter
MaxIter == 3
\* camera centres are drawn from (-MaxCam..0) x (0..1)
MaxCam == 1
\* camera widths are the first MaxCamScale widths whose samples are integers
MaxCamScale == 2
\* the fixed output resolution of the scene (1024 in construct)
RESOLUTION == 2

(***************************************************************************)
(* Program constants.                                                      *)
(***************************************************************************)
\* max_iter=450, the default of generate_mandelbrot_image
DefaultMaxIter == 450
\* np.abs(z) > 4
EscapeThreshold == 4
\* number of entries of the plasma lookup table
LutSize == 256

(***************************************************************************)
(* Doubles: an integer value or NaN.                                       *)
(***************************************************************************)
F(v) == [nan |-> FALSE, v |-> v]
NaN == [nan |-> TRUE, v |-> 0]

FAdd(a, b) == IF a.nan \/ b.nan THEN NaN ELSE F(a.v + b.v)
FSub(a, b) == IF a.nan \/ b.nan THEN NaN ELSE F(a.v - b.v)
FMul(a, b) == IF a.nan \/ b.nan THEN NaN ELSE F(a.v * b.v)
\* exact on the inputs the model draws: b divides a
FDiv(a, b) == IF a.nan \/ b.nan THEN NaN ELSE F(a.v \div b.v)

(***************************************************************************)
(* complex128: a pair of doubles.                                          *)
(***************************************************************************)
Cx(re, im) == [re |-> re, im |-> im]
CAdd(a, b) == Cx(FAdd(a.re, b.re), FAdd(a.im, b.im))
CMul(a, b) == Cx(FSub(FMul(a.re, b.re), FMul(a.im, b.im)),
                 FAdd(FMul(a.re, b.im), FMul(a.im, b.re)))
\* z**2 : numpy squares by multiplying z with itself
CSqr(a) == CMul(a, a)
\* np.abs(z) > t : the modulus is hypot(re, im); NaN compares false
AbsGt(a, t) == /\ ~a.re.nan
               /\ ~a.im.nan
               /\ a.re.v * a.re.v + a.im.v * a.im.v > t * t

(***************************************************************************)
(* np.linspace(start, stop, num), num >= 0, endpoint included.             *)
(***************************************************************************)
Linspace(start, stop, num) ==
  LET delta == FSub(stop, start)
      step  == IF num > 1 THEN FDiv(delta, F(num - 1)) ELSE NaN
  IN [k \in 1..num |->
        IF num > 1 /\ k = num THEN stop
        ELSE IF num > 1 THEN FAdd(FMul(F(k - 1), step), start)
        ELSE FAdd(FMul(F(k - 1), delta), start)]

\* The array g with every element computed when the array is made, as
\* numpy does it (the model's functions are otherwise computed on demand).
Array(g) == [a \in 1..Len(g) |-> g[a] \o <<>>] \o <<>>

\* c = x[:, None] + 1j*y[None, :]
ComplexGrid(x, y) ==
  Array([a \in 1..Len(x) |-> [b \in 1..Len(y) |->
      CAdd(Cx(x[a], F(0)), CMul(Cx(F(0), F(1)), Cx(y[b], F(0))))]])

(***************************************************************************)
(* generate_mandelbrot_image: the arrays of the escape loop.  A grid of    *)
(* shape (n0, n1) is a sequence of n0 sequences of length n1.              *)
(***************************************************************************)
\* z = np.zeros_like(c, dtype=np.complex128)
ZerosLike(n0, n1) ==
  Array([a \in 1..n0 |-> [b \in 1..n1 |-> Cx(F(0), F(0))]])

\* a sentinel below the range, where the code fills with max_iter
FullBelowRange(n0, n1, max_iter) ==
  Array([a \in 1..n0 |-> [b \in 1..n1 |-> 0 - 1]])

\* div_time = np.full(c.shape, max_iter, dtype=np.int32)
Full(n0, n1, max_iter) ==
  Array([a \in 1..n0 |-> [b \in 1..n1 |-> max_iter]])

\* mask = np.ones_like(c, dtype=bool)
OnesLike(n0, n1) ==
  Array([a \in 1..n0 |-> [b \in 1..n1 |-> TRUE]])

\* lines 118-120: the state of the loop before its first iteration, for a
\* grid of shape (n0, n1)
LoopInit(n0, n1, max_iter) ==
  [z |-> ZerosLike(n0, n1),
   div_time |-> Full(n0, n1, max_iter),
   mask |-> OnesLike(n0, n1)]

\* one iteration of `for i in range(max_iter)`, with index k
LoopBody(cc, st, k) ==
  LET n0 == Len(cc)
      n1 == IF Len(cc) = 0 THEN 0 ELSE Len(cc[1])
      \* z[mask] = z[mask]**2 + c[mask]
      z1 == Array([a \in 1..n0 |-> [b \in 1..n1 |->
                     IF st.mask[a][b] THEN CAdd(CSqr(st.z[a][b]), cc[a][b])
                     ELSE st.z[a][b]]])
      \* mask[np.abs(z) > 4] = False
      mask1 == Array([a \in 1..n0 |-> [b \in 1..n1 |->
                     IF AbsGt(z1[a][b], EscapeThreshold) THEN FALSE
                     ELSE st.mask[a][b]]])
      \* div_time[mask] = i
      div1 == Array([a \in 1..n0 |-> [b \in 1..n1 |->
                     IF mask1[a][b] THEN k ELSE st.div_time[a][b]]])
  IN [z |-> z1, div_time |-> div1, mask |-> mask1]

\* The iterations of index lo, lo+1, ..., hi-1 of the loop, in this order.
\* The range is halved to keep the evaluation shallow, and the test on the
\* state after the first half (the arrays keep the shape of the grid, so it
\* always holds) makes that half computed before the second starts.
RECURSIVE RunLoop(_, _, _, _)
RunLoop(cc, st, lo, hi) ==
  IF lo >= hi THEN st
  ELSE IF hi = lo + 1 THEN LoopBody(cc, st, lo)
  ELSE LET mid == (lo + hi) \div 2
           half == RunLoop(cc, st, lo, mid)
       IN IF Len(half.z) = Len(cc) THEN RunLoop(cc, half, mid, hi) ELSE half

(***************************************************************************)
(* generate_mandelbrot_image: normalisation and colour mapping.            *)
(***************************************************************************)
\* the number of elements of a grid of shape (n0, n1)
GridSize(n0, n1) == n0 * n1

\* the grid left as it is, where the code transposes it
NotTransposed(g) == g

\* div_time.T, for a grid with at least one element
Transposed(g) ==
  [r \in 1..Len(g[1]) |-> [k \in 1..Len(g) |-> g[k][r]]]

GridValues(g) == {g[a][b] : a \in 1..Len(g), b \in 1..Len(g[1])}

\* div_time.max(), for a grid with at least one element
GridMax(g) == CHOOSE m \in GridValues(g) : \A v \in GridValues(g) : v <= m

\* the maximum itself, where the code replaces a zero maximum by 1
MaxValUnprotected(g) == GridMax(g)

\* max_val = div_time.max() or 1
MaxVal(g) == IF GridMax(g) = 0 THEN 1 ELSE GridMax(g)

\* normalized = div_time.astype(np.float32) / max_val : the quotient num/den
\* of two integers, kept as the pair; a zero divisor gives nan (0/0) or inf
Normalized(g, mv) ==
  [r \in 1..Len(g) |-> [k \in 1..Len(g[r]) |-> [num |-> g[r][k], den |-> mv]]]

\* The row of the lookup table that Colormap.__call__ reads for the value q:
\* int(q * N), with q = 1 mapped to N - 1, values below 0 to the first row
\* (under), values above 1 to the last row (over) and nan to the row "bad".
\* The float32 quotient is within 2^-24 of num/den, which for den <= 450 is
\* either a multiple of 1/N or further than that from one, so the row is
\* floor(num * N / den).
LutRow(q) ==
  IF q.den = 0 THEN (IF q.num = 0 THEN LutSize + 2
                     ELSE IF q.num > 0 THEN LutSize - 1 ELSE 0)
  ELSE LET n == IF q.den < 0 THEN 0 - q.num ELSE q.num
           d == IF q.den < 0 THEN 0 - q.den ELSE q.den
       IN IF n < 0 THEN 0
          ELSE IF n >= d THEN LutSize - 1
          ELSE (n * LutSize) \div d

\* cm.plasma(q, bytes=True): the four bytes R, G, B, A of that row
PlasmaBytes(q) == [ch \in 1..4 |-> [lut |-> LutRow(q), channel |-> ch]]

\* [..., :3]
FirstThree(px) == SubSeq(px, 1, 3)

\* cm.plasma(normalized, bytes=True)[..., :3]
ColorImage(nrm) ==
  [r \in 1..Len(nrm) |-> [k \in 1..Len(nrm[r]) |->
      FirstThree(PlasmaBytes(nrm[r][k]))]]

\* lines 128-133 on a grid with at least one element
Colorize(g) ==
  LET t == Transposed(g)
      mv == MaxVal(t)
      nrm == Normalized(t, mv)
  IN [max_val |-> mv, normalized |-> nrm, image |-> ColorImage(nrm)]

\* generate_mandelbrot_image as a function of its arguments: "ok" and the
\* image, or "error" when linspace or max() raises ValueError
GenerateMandelbrotImage(a) ==
  IF a.width < 0 \/ a.height < 0 THEN [status |-> "error", image |-> <<>>]
  ELSE LET cc == ComplexGrid(Linspace(a.x_start, a.x_end, a.width),
                             Linspace(a.y_start, a.y_end, a.height))
           st == RunLoop(cc, LoopInit(a.width, a.height, a.max_iter), 0, a.max_iter)
       IN IF GridSize(a.width, a.height) = 0
          THEN [status |-> "error", image |-> <<>>]
          ELSE [status |-> "ok", image |-> Colorize(st.div_time).image]

(***************************************************************************)
(* A direct call of generate_mandelbrot_image, step by step.               *)
(* pc: "call" (entered), "loop" (in the escape loop, i the next index),    *)
(* "done" (image returned), "error" (ValueError raised), "idle" (no call). *)
(***************************************************************************)
\* real bounds, and imaginary bounds in the upper half plane (the orbit of
\* the conjugate of c is the conjugate of the orbit of c)
Coords == {F(v) : v \in (0 - MaxCoord)..MaxCoord}
ImCoords == {F(v) : v \in 0..MaxCoord}
Dims == (0 - 1)..MaxDim
Caps == 0..MaxIter

\* the samples of linspace(lo, hi, num) are integers or NaN
ExactSpacing(lo, hi, num) ==
  num > 1 /\ ~lo.nan /\ ~hi.nan => (hi.v - lo.v) % (num - 1) = 0

\* lo <= hi, as of a view rectangle; a NaN bound is unordered
Ordered(lo, hi) == ~lo.nan /\ ~hi.nan => lo.v <= hi.v

CallArgs ==
  {a \in [x_start : Coords \cup {NaN}, x_end : Coords \cup {NaN},
          y_start : ImCoords \cup {NaN}, y_end : ImCoords \cup {NaN},
          width : Dims, height : Dims, max_iter : Caps] :
     /\ Ordered(a.x_start, a.x_end)
     /\ Ordered(a.y_start, a.y_end)
     /\ ExactSpacing(a.x_start, a.x_end, a.width)
     /\ ExactSpacing(a.y_start, a.y_end, a.height)}

\* lines 113-120: the sample grid and the arrays of the loop
Setup ==
  /\ pc = "call"
  /\ IF args.width < 0 \/ args.height < 0
     THEN /\ pc' = "error"
          /\ UNCHANGED <<c, z, div_time, mask>>
     ELSE LET cc == ComplexGrid(
                      Linspace(args.x_start, args.x_end, args.width),
                      Linspace(args.y_start, args.y_end, args.height))
              st == LoopInit(args.width, args.height, args.max_iter)
          IN /\ c' = cc
             /\ z' = st.z
             /\ div_time' = st.div_time
             /\ mask' = st.mask
             /\ pc' = "loop"
  /\ UNCHANGED <<args, i, max_val, normalized, image>>
  /\ UNCHANGED sceneVars

\* lines 122-125: the iteration of index i
LoopIter ==
  /\ pc = "loop"
  /\ i < args.max_iter
  /\ LET st == LoopBody(c, [z |-> z, div_time |-> div_time, mask |-> mask], i)
     IN /\ z' = st.z
        /\ div_time' = st.div_time
        /\ mask' = st.mask
  /\ i' = i + 1
  /\ UNCHANGED <<args, pc, c, max_val, normalized, image>>
  /\ UNCHANGED sceneVars

\* lines 128-133, once range(max_iter) is exhausted; max() of an empty
\* array raises ValueError
Finish ==
  /\ pc = "loop"
  /\ i >= args.max_iter
  /\ IF GridSize(args.width, args.height) = 0
     THEN /\ pc' = "error"
          /\ UNCHANGED <<max_val, normalized, image>>
     ELSE LET out == Colorize(div_time)
          IN /\ max_val' = out.max_val
             /\ normalized' = out.normalized
             /\ image' = out.image
             /\ pc' = "done"
  /\ UNCHANGED <<args, c, z, div_time, mask, i>>
  /\ UNCHANGED sceneVars

(***************************************************************************)
(* The scene: the camera frame, the image mobject and its updater.         *)
(***************************************************************************)
\* aspect_ratio = 1.0
AspectRatio == 1

CamCentres == ((0 - MaxCam)..0) \X (0..1)

\* widths w for which the RESOLUTION samples of [centre - w/2, centre + w/2]
\* are integers
CamWidths ==
  {2 * (IF RESOLUTION > 1 THEN RESOLUTION - 1 ELSE 1) * m : m \in 1..MaxCamScale}

\* x_half = current_width / 2
HalfWidth(fr) == FDiv(F(fr.width), F(2))

\* lines 143-159: the arguments of the call update_mandelbrot makes
ViewArgs(fr, resolution) ==
  LET x_half == HalfWidth(fr)
      y_half == FMul(x_half, F(AspectRatio))
  IN [x_start |-> FSub(F(fr.center[1]), x_half),
      x_end |-> FAdd(F(fr.center[1]), x_half),
      y_start |-> FSub(F(fr.center[2]), y_half),
      y_end |-> FAdd(F(fr.center[2]), y_half),
      width |-> resolution, height |-> resolution,
      max_iter |-> DefaultMaxIter]

\* lines 30-36: the arguments of the first call, around zoom_start_point
\* with the half width of the initial frame
StartArgs(p, w) ==
  [x_start |-> F(p[1] - w \div 2), x_end |-> F(p[1] + w \div 2),
   y_start |-> F(p[2] - w \div 2), y_end |-> F(p[2] + w \div 2),
   width |-> RESOLUTION, height |-> RESOLUTION, max_iter |-> DefaultMaxIter]

\* lines 23-38: the frame moved to the start point and the first image
\* added there, in its natural size (size <<>>)
SceneStart(p, w) ==
  /\ frame = [center |-> p, width |-> w]
  /\ mandelbrot_mob = [image |-> GenerateMandelbrotImage(StartArgs(p, w)).image,
                       center |-> p, size |-> <<>>]
  /\ fresh = FALSE

\* self.camera.frame.move_to(p)
MoveTo ==
  /\ pc = "idle"
  /\ \E p \in CamCentres : frame' = [frame EXCEPT !.center = p]
  /\ fresh' = FALSE
  /\ UNCHANGED mandelbrot_mob
  /\ UNCHANGED evalVars

\* self.camera.frame.set_width(w)
SetWidth ==
  /\ pc = "idle"
  /\ \E w \in CamWidths : frame' = [frame EXCEPT !.width = w]
  /\ fresh' = FALSE
  /\ UNCHANGED mandelbrot_mob
  /\ UNCHANGED evalVars

\* an updater that keeps the image it already shows and only moves and
\* stretches it to the frame
UpdateKeepingImage ==
  /\ pc = "idle"
  /\ mandelbrot_mob' =
       [image |-> mandelbrot_mob.image, center |-> frame.center,
        size |-> <<frame.width, frame.width * AspectRatio>>]
  /\ args' = ViewArgs(frame, RESOLUTION)
  /\ fresh' = TRUE
  /\ UNCHANGED frame
  /\ UNCHANGED <<pc, c, z, div_time, mask, i, max_val, normalized, image>>

\* the updater of line 41: update_mandelbrot(mob, RESOLUTION) on a tick
UpdateMandelbrot ==
  /\ pc = "idle"
  /\ LET new_image == GenerateMandelbrotImage(ViewArgs(frame, RESOLUTION))
     IN mandelbrot_mob' =
          [image |-> new_image.image, center |-> frame.center,
           size |-> <<frame.width, frame.width * AspectRatio>>]
  /\ args' = ViewArgs(frame, RESOLUTION)
  /\ fresh' = TRUE
  /\ UNCHANGED frame
  /\ UNCHANGED <<pc, c, z, div_time, mask, i, max_val, normalized, image>>

(***************************************************************************)
(* Specifications.                                                         *)
(***************************************************************************)
NoCall ==
  /\ c = <<>> /\ z = <<>> /\ div_time = <<>> /\ mask = <<>>
  /\ i = 0 /\ max_val = 0 /\ normalized = <<>> /\ image = <<>>

\* a call of generate_mandelbrot_image with arguments drawn from CallArgs
Init ==
  /\ SceneStart(<<0, 0>>, 2 * (IF RESOLUTION > 1 THEN RESOLUTION - 1 ELSE 1))
  /\ pc = "call"
  /\ NoCall
  /\ args \in CallArgs

Next == Setup \/ LoopIter \/ Finish

Spec == Init /\ [][Next]_vars

\* the scene after construct's first image, the camera moved and resized
\* by the animations and the updater run on the ticks
SceneInit ==
  /\ \E p \in CamCentres : \E w \in CamWidths :
        /\ SceneStart(p, w)
        /\ args = StartArgs(p, w)
  /\ pc = "idle"
  /\ NoCall

SceneNext == MoveTo \/ SetWidth \/ UpdateMandelbrot

SceneSpec == SceneInit /\ [][SceneNext]_vars

(***************************************************************************)
(* What the claims speak of.                                               *)
(***************************************************************************)
\* the orbit z <- z^2 + c from z = (zr, zi), iterations k..n-1, with escape
\* radius 2: the index of the first iteration after whose update
\* |z|^2 > 4, or -1 when there is none below n
RECURSIVE CrossingFrom(_, _, _, _, _, _)
CrossingFrom(cr, ci, zr, zi, k, n) ==
  IF k >= n THEN 0 - 1
  ELSE LET nr == zr * zr - zi * zi + cr
           ni == 2 * zr * zi + ci
       IN IF nr * nr + ni * ni > 4 THEN k
          ELSE CrossingFrom(cr, ci, nr, ni, k + 1, n)

IsFinite(s) == ~s.re.nan /\ ~s.im.nan

FirstCrossing(s, n) == CrossingFrom(s.re.v, s.im.v, 0, 0, 0, n)

FiniteBounds ==
  /\ ~args.x_start.nan /\ ~args.x_end.nan
  /\ ~args.y_start.nan /\ ~args.y_end.nan

InvalidGeometry == args.width <= 0 \/ args.height <= 0 \/ ~FiniteBounds

\* C1: a sample whose orbit first has |z|^2 > 4 after the update of
\* iteration k < max_iter has recorded escape time k.
C1_RecordsCrossingIteration ==
  pc = "done" =>
    \A a \in 1..Len(c) : \A b \in 1..Len(c[a]) :
      (IsFinite(c[a][b]) /\ FirstCrossing(c[a][b], args.max_iter) >= 0)
        => div_time[a][b] = FirstCrossing(c[a][b], args.max_iter)

\* C2: a sample whose orbit never exceeds the escape radius within the
\* budget ends with escape time max_iter (so does the origin), for every
\* max_iter >= 1.
C2_BoundedSampleKeepsMaxIter ==
  (pc = "done" /\ args.max_iter >= 1) =>
    \A a \in 1..Len(c) : \A b \in 1..Len(c[a]) :
      (IsFinite(c[a][b]) /\ FirstCrossing(c[a][b], args.max_iter) < 0)
        => div_time[a][b] = args.max_iter

\* C3: when every sample escapes on iteration 0, the normalized grid is 0 at
\* every pixel and all pixels of the image have the same colour.
C3_AllEscapedGivesZeroGrid ==
  (/\ pc = "done"
   /\ \A a \in 1..Len(c) : \A b \in 1..Len(c[a]) :
        IsFinite(c[a][b]) /\ FirstCrossing(c[a][b], args.max_iter) = 0)
  => /\ \A r \in 1..Len(normalized) : \A k \in 1..Len(normalized[r]) :
          normalized[r][k].num = 0
     /\ \A r \in 1..Len(image) : \A k \in 1..Len(image[r]) :
          image[r][k] = image[1][1]

\* C4: for caps m1 <= m2 on the same grid, no pixel's escape time is smaller
\* under m2, and a pixel that escaped within m1 iterations has the same
\* escape time under m2.
C4_MonotoneInMaxIter ==
  pc = "done" =>
    \A m1 \in 0..args.max_iter :
      LET s1 == RunLoop(c, LoopInit(args.width, args.height, m1), 0, m1)
      IN \A a \in 1..Len(c) : \A b \in 1..Len(c[a]) :
           /\ div_time[a][b] >= s1.div_time[a][b]
           /\ ~s1.mask[a][b] => div_time[a][b] = s1.div_time[a][b]

\* C5: at every point of the loop and in the final grid every escape time is
\* an integer of 0..max_iter.
C5_EscapeTimeInRange ==
  \A a \in 1..Len(div_time) : \A b \in 1..Len(div_time[a]) :
    div_time[a][b] \in 0..args.max_iter

\* C5 witness: in the middle of the loop, a sample the last iteration wrote
\* and a sample still at max_iter.
C5_Witness ==
  /\ pc = "loop" /\ i >= 1 /\ i < args.max_iter
  /\ \E a \in 1..Len(div_time) : \E b \in 1..Len(div_time[a]) :
       div_time[a][b] = i - 1
  /\ \E a \in 1..Len(div_time) : \E b \in 1..Len(div_time[a]) :
       div_time[a][b] = args.max_iter

\* C6: the image has height rows, width columns and 3 channels, and the
\* pixel at row r, column k is the colour of the escape time of the sample
\* c = x[k] + i*y[r].
C6_ShapeAndOrientation ==
  (pc = "done" /\ FiniteBounds) =>
    LET x == Linspace(args.x_start, args.x_end, args.width)
        y == Linspace(args.y_start, args.y_end, args.height)
    IN /\ Len(image) = args.height
       /\ \A r \in 1..args.height :
            /\ Len(image[r]) = args.width
            /\ \A k \in 1..args.width :
                 /\ Len(image[r][k]) = 3
                 /\ c[k][r] = Cx(x[k], y[r])
                 /\ image[r][k] =
                      SubSeq(PlasmaBytes([num |-> div_time[k][r],
                                          den |-> max_val]), 1, 3)

\* C6 witness: an image that is not square, with two pixels of different
\* colours.
C6_Witness ==
  /\ pc = "done" /\ FiniteBounds
  /\ args.width # args.height
  /\ \E r \in 1..Len(image) : \E k \in 1..Len(image[r]) :
       image[r][k] # image[1][1]

\* C7: the sample c = 3+0i is deactivated on iteration 0 and its recorded
\* escape time is 0, for every max_iter >= 1.
C7_ThreeEscapesAtIterationZero ==
  ((pc = "loop" /\ i >= 1) \/ (pc = "done" /\ args.max_iter >= 1)) =>
    \A a \in 1..Len(c) : \A b \in 1..Len(c[a]) :
      c[a][b] = Cx(F(3), F(0)) => (~mask[a][b] /\ div_time[a][b] = 0)

\* C8: a call with invalid geometry (a dimension zero or negative, a bound
\* that is not finite) runs no iteration of the loop and returns no image.
C8_InvalidGeometryFailsFast ==
  InvalidGeometry => (pc # "done" /\ i = 0)

\* C10: on a grid with at least one element the divisor of the
\* normalisation is the maximum of the grid, or 1 when that is 0, never 0;
\* every normalized value lies in [0, 1]; a grid of maximum 0 normalizes to
\* zeros.
C10_NormalizationSafe ==
  pc = "done" =>
    LET m == GridMax(div_time)
    IN /\ max_val # 0
       /\ max_val = (IF m = 0 THEN 1 ELSE m)
       /\ \A r \in 1..Len(normalized) : \A k \in 1..Len(normalized[r]) :
            /\ normalized[r][k].num = div_time[k][r]
            /\ normalized[r][k].den = max_val
            /\ 0 <= normalized[r][k].num
            /\ normalized[r][k].num <= normalized[r][k].den
            /\ m = 0 => normalized[r][k].num = 0

\* C10 witness: a grid whose maximum is 0 after at least one iteration,
\* divided by 1.
C10_Witness ==
  /\ pc = "done" /\ args.max_iter >= 1
  /\ GridMax(div_time) = 0
  /\ max_val = 1

\* the square [cx - w/2, cx + w/2] x [cy - w/2, cy + w/2] around the centre
\* p, at RESOLUTION x RESOLUTION, with the default iteration cap
SquareAround(p, w) ==
  [x_start |-> F(p[1] - w \div 2), x_end |-> F(p[1] + w \div 2),
   y_start |-> F(p[2] - w \div 2), y_end |-> F(p[2] + w \div 2),
   width |-> RESOLUTION, height |-> RESOLUTION, max_iter |-> DefaultMaxIter]

\* C9: the image update_mandelbrot installs on a tick is
\* generate_mandelbrot_image evaluated from scratch on the square around
\* the camera centre with the camera width, whatever was shown before.
C9_ImageIsFreshEvaluation ==
  fresh =>
    /\ mandelbrot_mob.image =
         GenerateMandelbrotImage(SquareAround(frame.center, frame.width)).image
    /\ Len(mandelbrot_mob.image) = RESOLUTION

\* C9 witness: after a tick, the image shown differs from the image of
\* another camera position, so a kept image would be seen.
C9_Witness ==
  /\ fresh
  /\ \E p \in CamCentres : \E w \in CamWidths :
       mandelbrot_mob.image # GenerateMandelbrotImage(SquareAround(p, w)).image

====
